---- MODULE Spec2Model ----
(***************************************************************************)
(* Easy-Split (src/EasySplit.py): the settlement engine compute_result,    *)
(* the rate provider get_exchange_rates and the request handler on_submit  *)
(* over the module-level lists participants and entries.                   *)
(*                                                                         *)
(* Numbers.  The code computes in double precision; the model computes in  *)
(* exact fixed point.  One money unit of the model is 1e-9 of a currency   *)
(* unit, so that the threshold 1e-9 of compute_result is a value the       *)
(* amounts of the model lie around.  A rate factor f is held as            *)
(* f * RateScale, a share (amount / n) as (amount / n) * ShareDen, a debt  *)
(* in base currency as value * ShareDen * RateScale.  The amounts and      *)
(* share counts of the model divide exactly.                               *)
(*                                                                         *)
(* Names.  The currency keys of the code are Chinese strings; the model    *)
(* writes "Pound", "Euro", "Yuan" for them and "Dollar" for a currency the *)
(* rate table does not know.  bill_date and reference of an entry take no  *)
(* part in any computation and are left out of the rows.  The report is    *)
(* kept as its parts (message, table, list); the two-decimal formatting of *)
(* its numbers is not modelled.                                            *)
(***************************************************************************)
EXTENDS Integers, Sequences, FiniteSets, TLC

VARIABLES
    participants,   \* module global: list of names
    entries,        \* module global: list of entry records
    csv_file,       \* the rows of trip_expenses.csv, or NoFile
    req,            \* per thread: the on_submit request in flight, or NoReq
    pc,             \* per thread: position of the handler
    row_idx,        \* per thread: index of the next row of the loop of on_submit
    rows_to_save,   \* per thread: local list rows_to_save
    out             \* per thread: what on_submit returned, or NoOut

vars == <<participants, entries, csv_file, req, pc, row_idx, rows_to_save, out>>

(***************************************************************************)
(* Bounds of the model.                                                    *)
(***************************************************************************)
MaxEntries == 2
MaxShare == 2
MaxParticipants == 1

Threads == {1, 2}

\* People, in the order sorted() gives them.
NameOrder == <<"A", "B", "C">>
Names == {NameOrder[i] : i \in 1..Len(NameOrder)}

Range(s) == {s[i] : i \in 1..Len(s)}

SeqsUpTo(S, n) == UNION {[1..k -> S] : k \in 0..n}

(***************************************************************************)
(* Fixed point.                                                            *)
(***************************************************************************)
RateScale == 100
ShareDen == 3 * 4
\* 1e-9 in debt units (one money unit is 1e-9).
Epsilon == ShareDen * RateScale

SupportedCurrencies == {"Pound", "Euro", "Yuan"}
Currencies == SupportedCurrencies \cup {"Dollar"}

(***************************************************************************)
(* get_exchange_rates                                                      *)
(***************************************************************************)
default_rates == [cn \in SupportedCurrencies |->
                    CASE cn = "Pound" -> RateScale
                      [] cn = "Euro"  -> 86
                      [] cn = "Yuan"  -> 11]

symbol_map == [cn \in SupportedCurrencies |->
                    CASE cn = "Pound" -> "GBP"
                      [] cn = "Euro"  -> "EUR"
                      [] cn = "Yuan"  -> "CNY"]

EmptyMap == [x \in {} |-> 0]

\* data.get("rates", {}) of a JSON body.
response_rates(resp) == IF resp.has_rates THEN resp.rates ELSE EmptyMap

\* The try block raises: requests.get raises (network failure, timeout),
\* response.json() raises (body is not JSON), or 1 / rate divides by zero.
rates_raises(resp) ==
    \/ resp.kind \in {"raise", "timeout", "nonjson"}
    \/ \E cn \in SupportedCurrencies \ {"Pound"} :
          /\ symbol_map[cn] \in DOMAIN response_rates(resp)
          /\ response_rates(resp)[symbol_map[cn]] = 0

\* The table the try block builds when nothing raises.
rates_table(resp) ==
    LET rts == response_rates(resp) IN
    [cn \in SupportedCurrencies |->
        IF cn = "Pound" THEN RateScale
        ELSE IF symbol_map[cn] \in DOMAIN rts
             THEN RateScale \div rts[symbol_map[cn]]
             ELSE default_rates[cn]]

\* Mutant: the except clause hands back the table built so far (the base
\* currency alone) instead of default_rates.
get_exchange_rates_partial(resp) ==
    IF rates_raises(resp) THEN [cn \in {"Pound"} |-> RateScale]
    ELSE rates_table(resp)

get_exchange_rates(resp) ==
    IF rates_raises(resp) THEN default_rates ELSE rates_table(resp)

\* conversion_rates.get(curr, 1.0)
rate_of(conversion_rates, curr) ==
    IF curr \in DOMAIN conversion_rates THEN conversion_rates[curr] ELSE RateScale

(***************************************************************************)
(* compute_result: aggregation (lines 65-81)                               *)
(***************************************************************************)
ZeroMatrix == [d \in Names |-> [c \in Names |-> 0]]
ZeroTransfer == [curr \in Currencies |-> ZeroMatrix]

\* share_amt = amount / n
share_amt(entry) == (entry.amount * ShareDen) \div Len(entry.share)

\* Mutant: the payer's own share is booked as a debt of the payer to the payer.
RECURSIVE add_shares_self(_, _, _)
add_shares_self(transfer, entry, k) ==
    IF k > Len(entry.share) THEN transfer
    ELSE add_shares_self(
            [transfer EXCEPT ![entry.currency][entry.share[k]][entry.payer] =
                                 @ + share_amt(entry)],
            entry, k + 1)

\* for person in share_list (from position k on): if person != payer:
\*     transfer[currency][person][payer] += share_amt
RECURSIVE add_shares(_, _, _)
add_shares(transfer, entry, k) ==
    IF k > Len(entry.share) THEN transfer
    ELSE LET person == entry.share[k] IN
         add_shares(
            IF person # entry.payer
            THEN [transfer EXCEPT ![entry.currency][person][entry.payer] =
                                     @ + share_amt(entry)]
            ELSE transfer,
            entry, k + 1)

\* for entry in entries (from position k on); an entry with n == 0 is skipped.
RECURSIVE aggregate(_, _, _)
aggregate(transfer, ents, k) ==
    IF k > Len(ents) THEN transfer
    ELSE aggregate(
            IF Len(ents[k].share) = 0 THEN transfer
            ELSE add_shares(transfer, ents[k], 1),
            ents, k + 1)

\* all_people = set(participants), plus every person of every share list.
all_people(parts, ents) ==
    Range(parts) \cup UNION {Range(ents[k].share) : k \in 1..Len(ents)}

\* sorted(all_people)
sorted(S) == SelectSeq(NameOrder, LAMBDA p : p \in S)

(***************************************************************************)
(* compute_result: normalisation (lines 83-89)                             *)
(***************************************************************************)
RECURSIVE SumOver(_, _)
SumOver(S, f) ==
    IF S = {} THEN 0
    ELSE LET x == CHOOSE y \in S : TRUE IN f[x] + SumOver(S \ {x}, f)

\* net_transfer[debtor][creditor] += amt * rate, over every currency
normalize(transfer, conversion_rates) ==
    [d \in Names |-> [c \in Names |->
        SumOver(Currencies,
                [curr \in Currencies |->
                    transfer[curr][d][c] * rate_of(conversion_rates, curr)])]]

(***************************************************************************)
(* compute_result: netting (lines 91-104)                                  *)
(***************************************************************************)
net_amt(net_transfer, debtor, creditor) ==
    net_transfer[debtor][creditor] - net_transfer[creditor][debtor]

\* Mutant: the net amount is compared with zero, not with the threshold.
exceeds_zero(amt) == amt > 0
\* if net_amt > 1e-9
exceeds(amt) == amt > Epsilon

\* The double loop over people_list from position (i, j) on: the list
\* transactions, in the order of the appends.
RECURSIVE net_loop(_, _, _, _)
net_loop(net_transfer, people_list, i, j) ==
    IF i > Len(people_list) THEN <<>>
    ELSE IF j > Len(people_list) THEN net_loop(net_transfer, people_list, i + 1, 1)
    ELSE IF people_list[i] = people_list[j]
         THEN net_loop(net_transfer, people_list, i, j + 1)
    ELSE LET amt == net_amt(net_transfer, people_list[i], people_list[j]) IN
         (IF exceeds(amt)
          THEN <<[from |-> people_list[i], to |-> people_list[j], amount |-> amt]>>
          ELSE <<>>)
         \o net_loop(net_transfer, people_list, i, j + 1)

\* reduced_matrix: a cell for every ordered pair of distinct people.
reduced_matrix(net_transfer, people_list) ==
    [d \in Range(people_list) |-> [c \in Range(people_list) \ {d} |->
        LET amt == net_amt(net_transfer, d, c) IN
        IF exceeds(amt) THEN amt ELSE 0]]

(***************************************************************************)
(* compute_result: report (lines 106-137)                                  *)
(***************************************************************************)
\* any(sum(v.values()) > 1e-9 for v in reduced_matrix.values())
any_row_positive(reduced) ==
    \E d \in DOMAIN reduced : SumOver(DOMAIN reduced[d], reduced[d]) > Epsilon

\* Which text the report carries: the table with the list of transfers, the
\* table with the "already settled" line, or the "no valid data" message alone.
html_result(reduced, transactions) ==
    IF transactions = <<>> /\ ~any_row_positive(reduced) THEN "no_valid_data"
    ELSE IF transactions # <<>> THEN "table_and_transfers"
    ELSE "table_and_settled"

compute_result(parts, ents, resp) ==
    LET transfer == aggregate(ZeroTransfer, ents, 1)
        people_list == sorted(all_people(parts, ents))
        conversion_rates == get_exchange_rates(resp)
        net_transfer == normalize(transfer, conversion_rates)
        reduced == reduced_matrix(net_transfer, people_list)
        transactions == net_loop(net_transfer, people_list, 1, 1)
    IN [status |-> "returned",
        people_list |-> people_list,
        conversion_rates |-> conversion_rates,
        transfer |-> transfer,
        net_transfer |-> net_transfer,
        reduced_matrix |-> reduced,
        transactions |-> transactions,
        html |-> html_result(reduced, transactions)]

(***************************************************************************)
(* on_submit (lines 309-358) and save_to_csv (lines 140-156)               *)
(***************************************************************************)
NoReq == [kind |-> "none"]
NoOut == [status |-> "none"]
NoFile == [exists |-> FALSE, rows |-> <<>>]
\* on_submit raised (row[5] of a row of five cells): no report is returned.
Raised == [status |-> "raised"]

\* [row[0] for row in current_participants]
participants_list(current_participants) ==
    [i \in 1..Len(current_participants) |-> current_participants[i][1]]

\* The share cell is held as its pieces between the commas; the pieces that are
\* blank after strip() are dropped.
share_list(row) == SelectSeq(row.share, LAMBDA p : p # "")

\* What the loop body does with one row: rows of fewer than five cells and rows
\* whose amount float() cannot parse are skipped; a row of exactly five cells
\* has no row[5] and raises IndexError; any other row is appended.
row_action(row) ==
    IF row.ncols < 5 THEN "skip"
    ELSE IF row.amount.kind # "num" THEN "skip"
    ELSE IF row.ncols < 6 THEN "raise"
    ELSE "append"

entry_of(row) ==
    [payer |-> row.payer, currency |-> row.currency,
     amount |-> row.amount.val, share |-> share_list(row)]

\* The loop over current_entries from row k on, appending to ents and saved.
RECURSIVE parse_rows(_, _, _, _)
parse_rows(rows, k, ents, saved) ==
    IF k > Len(rows)
    THEN [entries |-> ents, rows_to_save |-> saved, raised |-> FALSE]
    ELSE LET act == row_action(rows[k]) IN
         IF act = "raise"
         THEN [entries |-> ents, rows_to_save |-> saved, raised |-> TRUE]
         ELSE IF act = "skip" THEN parse_rows(rows, k + 1, ents, saved)
         ELSE parse_rows(rows, k + 1, Append(ents, entry_of(rows[k])),
                         Append(saved, rows[k]))

\* Mutant: entries.clear() is missing, the rows are appended to the old list.
on_submit_entries_noclear(old_entries, rows) ==
    parse_rows(rows, 1, old_entries, <<>>)

\* entries.clear() and the loop that refills the list.
on_submit_entries(old_entries, rows) ==
    parse_rows(rows, 1, <<>>, <<>>)

\* The file save_to_csv writes: one line per row, the first five cells (here
\* payer, currency, amount) and then one cell per consumer.
save_to_csv(rows) ==
    [exists |-> TRUE,
     rows |-> [i \in 1..Len(rows) |->
                [payer |-> rows[i].payer, currency |-> rows[i].currency,
                 amount |-> rows[i].amount.val,
                 consumers |-> share_list(rows[i])]]]

(***************************************************************************)
(* Inputs                                                                  *)
(***************************************************************************)
Number(v) == [kind |-> "num", val |-> v]
Text == [kind |-> "text", val |-> 0]

Amounts == {12}
EntryCurrencies == {"Pound", "Euro", "Dollar"}

\* Rows of six cells.
GoodRows == [ncols : {6}, payer : Names, currency : EntryCurrencies,
             amount : {Number(a) : a \in Amounts},
             share : SeqsUpTo(Names, MaxShare)]
\* A row of four cells, a row of five cells, a row whose amount is no number,
\* a row with a blank piece in its share cell, rows with amount zero or below,
\* a row that names a sharer twice.
OddRows == {[ncols |-> 4, payer |-> "A", currency |-> "Pound",
             amount |-> Number(12), share |-> <<>>],
            [ncols |-> 5, payer |-> "A", currency |-> "Pound",
             amount |-> Number(12), share |-> <<>>],
            [ncols |-> 6, payer |-> "A", currency |-> "Pound",
             amount |-> Text, share |-> <<"B">>],
            [ncols |-> 6, payer |-> "A", currency |-> "Pound",
             amount |-> Number(12), share |-> <<"", "B">>],
            [ncols |-> 6, payer |-> "A", currency |-> "Pound",
             amount |-> Number(0), share |-> <<"B">>],
            [ncols |-> 6, payer |-> "A", currency |-> "Pound",
             amount |-> Number(0 - 12), share |-> <<"B">>],
            [ncols |-> 6, payer |-> "B", currency |-> "Euro",
             amount |-> Number(0 - 12), share |-> <<"A", "C">>],
            [ncols |-> 6, payer |-> "A", currency |-> "Pound",
             amount |-> Number(12), share |-> <<"B", "B", "C">>]}
Rows == GoodRows \cup OddRows

\* What the rate request does: raises, times out, returns a body that is not
\* JSON, JSON without a rates field, or JSON with rates for some of the symbols
\* (here never for CNY).
APIRates == {0, 2}
Symbols == {"EUR"}
RateMaps == UNION {[S -> APIRates] : S \in SUBSET Symbols}
Responses ==
    {[kind |-> k, has_rates |-> FALSE, rates |-> EmptyMap] :
        k \in {"raise", "timeout", "nonjson", "json"}}
    \cup {[kind |-> "json", has_rates |-> TRUE, rates |-> m] : m \in RateMaps}
\* The request fails, or answers 1 GBP = 2 EUR.
TwoResponses ==
    {r \in Responses : r.kind = "raise" \/ (r.has_rates /\ ~rates_raises(r)
                                              /\ DOMAIN r.rates # {})}

ParticipantRows == {<<n>> : n \in Names}

\* Requests with any rows, under two responses.
Requests ==
    [kind : {"submit"},
     current_participants : SeqsUpTo(ParticipantRows, MaxParticipants),
     current_entries : SeqsUpTo(Rows, MaxEntries),
     response : TwoResponses]

\* Requests with few rows, under any response.
SmallRows == {[ncols |-> 6, payer |-> "A", currency |-> "Pound",
               amount |-> Number(12), share |-> <<"A", "B">>],
              [ncols |-> 6, payer |-> "B", currency |-> "Euro",
               amount |-> Number(12), share |-> <<"A">>],
              [ncols |-> 5, payer |-> "A", currency |-> "Pound",
               amount |-> Number(12), share |-> <<>>]}
SmallRequests ==
    [kind : {"submit"},
     current_participants : {<<>>, <<<<"C">>>>},
     current_entries : SeqsUpTo(SmallRows, MaxEntries),
     response : Responses]

\* Requests of two threads that run at once: few rows, the rate request fails.
ConcRequests == {r \in SmallRequests : r.response.kind = "raise"}

(***************************************************************************)
(* The handler as one step                                                 *)
(***************************************************************************)
on_submit(t) ==
    /\ pc[t] = "submitted"
    /\ LET r == req[t]
           parsed == on_submit_entries(entries, r.current_entries)
           plist == participants_list(r.current_participants)
       IN /\ participants' = plist
          /\ entries' = parsed.entries
          /\ rows_to_save' = [rows_to_save EXCEPT ![t] = parsed.rows_to_save]
          /\ row_idx' = [row_idx EXCEPT ![t] = Len(r.current_entries) + 1]
          /\ csv_file' = IF ~parsed.raised /\ parsed.rows_to_save # <<>>
                         THEN save_to_csv(parsed.rows_to_save)
                         ELSE csv_file
          /\ out' = [out EXCEPT ![t] =
                        IF parsed.raised THEN Raised
                        ELSE compute_result(plist, parsed.entries, r.response)]
    /\ pc' = [pc EXCEPT ![t] = "done"]
    /\ UNCHANGED req

\* Module load, with one request in flight.
Init ==
    /\ participants = <<>>
    /\ entries = <<>>
    /\ csv_file = NoFile
    /\ req \in {[t \in Threads |-> IF t = 1 THEN r ELSE NoReq] : r \in Requests}
    /\ pc = [t \in Threads |-> IF t = 1 THEN "submitted" ELSE "idle"]
    /\ row_idx = [t \in Threads |-> 1]
    /\ rows_to_save = [t \in Threads |-> <<>>]
    /\ out = [t \in Threads |-> NoOut]

Next == \E t \in Threads : on_submit(t)

Spec == Init /\ [][Next]_vars

(***************************************************************************)
(* One client submitting again and again                                   *)
(***************************************************************************)
\* The Submit button is clicked: a request with the values of the two tables.
Request(t) ==
    /\ pc[t] \in {"idle", "done"}
    /\ \E r \in SmallRequests : req' = [req EXCEPT ![t] = r]
    /\ pc' = [pc EXCEPT ![t] = "submitted"]
    /\ out' = [out EXCEPT ![t] = NoOut]
    /\ row_idx' = [row_idx EXCEPT ![t] = 1]
    /\ rows_to_save' = [rows_to_save EXCEPT ![t] = <<>>]
    /\ UNCHANGED <<participants, entries, csv_file>>

InitIdle ==
    /\ participants = <<>>
    /\ entries = <<>>
    /\ csv_file = NoFile
    /\ req = [t \in Threads |-> NoReq]
    /\ pc = [t \in Threads |-> "idle"]
    /\ row_idx = [t \in Threads |-> 1]
    /\ rows_to_save = [t \in Threads |-> <<>>]
    /\ out = [t \in Threads |-> NoOut]

NextSeq == \E t \in {1} : Request(t) \/ on_submit(t)

SpecSeq == InitIdle /\ [][NextSeq]_vars

(***************************************************************************)
(* Two handlers running at once: on_submit statement by statement          *)
(***************************************************************************)
\* participants[:] = participants_list  (line 320)
submit_participants(t) ==
    /\ pc[t] = "submitted"
    /\ participants' = participants_list(req[t].current_participants)
    /\ pc' = [pc EXCEPT ![t] = "clear"]
    /\ UNCHANGED <<entries, csv_file, req, row_idx, rows_to_save, out>>

\* entries.clear(); rows_to_save = []  (lines 322-323)
submit_clear(t) ==
    /\ pc[t] = "clear"
    /\ entries' = <<>>
    /\ rows_to_save' = [rows_to_save EXCEPT ![t] = <<>>]
    /\ row_idx' = [row_idx EXCEPT ![t] = 1]
    /\ pc' = [pc EXCEPT ![t] = "rows"]
    /\ UNCHANGED <<participants, csv_file, req, out>>

\* One pass of the loop over current_entries  (lines 332-355)
submit_row(t) ==
    /\ pc[t] = "rows"
    /\ row_idx[t] <= Len(req[t].current_entries)
    /\ LET row == req[t].current_entries[row_idx[t]]
           act == row_action(row)
       IN /\ entries' = IF act = "append" THEN Append(entries, entry_of(row))
                        ELSE entries
          /\ rows_to_save' = IF act = "append"
                             THEN [rows_to_save EXCEPT ![t] = Append(@, row)]
                             ELSE rows_to_save
          /\ row_idx' = [row_idx EXCEPT ![t] = @ + 1]
          /\ pc' = IF act = "raise" THEN [pc EXCEPT ![t] = "done"] ELSE pc
          /\ out' = IF act = "raise" THEN [out EXCEPT ![t] = Raised] ELSE out
    /\ UNCHANGED <<participants, csv_file, req>>

\* save_to_csv(rows_to_save); return compute_result()  (lines 356-358)
submit_compute(t) ==
    /\ pc[t] = "rows"
    /\ row_idx[t] > Len(req[t].current_entries)
    /\ csv_file' = IF rows_to_save[t] # <<>> THEN save_to_csv(rows_to_save[t])
                   ELSE csv_file
    /\ out' = [out EXCEPT ![t] =
                  compute_result(participants, entries, req[t].response)]
    /\ pc' = [pc EXCEPT ![t] = "done"]
    /\ UNCHANGED <<participants, entries, req, row_idx, rows_to_save>>

\* Two requests in flight at module load.
InitConc ==
    /\ participants = <<>>
    /\ entries = <<>>
    /\ csv_file = NoFile
    /\ req \in [Threads -> ConcRequests]
    /\ pc = [t \in Threads |-> "submitted"]
    /\ row_idx = [t \in Threads |-> 1]
    /\ rows_to_save = [t \in Threads |-> <<>>]
    /\ out = [t \in Threads |-> NoOut]

NextConc ==
    \E t \in Threads :
        \/ submit_participants(t)
        \/ submit_clear(t)
        \/ submit_row(t)
        \/ submit_compute(t)

SpecConc == InitConc /\ [][NextConc]_vars

(***************************************************************************)
(* Properties                                                              *)
(***************************************************************************)
Returned(t) == pc[t] = "done" /\ out[t].status = "returned"

\* net = matrix[i][j] - matrix[j][i] of a returned result
NetOf(o, i, j) == o.net_transfer[i][j] - o.net_transfer[j][i]

TransferPairs(o) ==
    {<<o.transactions[k].from, o.transactions[k].to>> :
        k \in 1..Len(o.transactions)}

Total(matrix) ==
    SumOver(Names \X Names, [pr \in Names \X Names |-> matrix[pr[1]][pr[2]]])

\* What a request comes to when it is handled from an empty module state.
OwnEntries(r) == parse_rows(r.current_entries, 1, <<>>, <<>>)
OwnResult(r) ==
    IF OwnEntries(r).raised THEN Raised
    ELSE compute_result(participants_list(r.current_participants),
                        OwnEntries(r).entries, r.response)

\* C1: the transfers are exactly the ordered pairs (i, j) of distinct people of
\* the sorted people list whose net matrix[i][j] - matrix[j][i] exceeds 1e-9,
\* each once and with that net as its amount; the dense cell [i][j] is the net
\* for those pairs and 0 for the others; so no transfer goes from a person to
\* the same person and none has an amount at or below 1e-9.
C1_NettingExact ==
    \A t \in Threads : Returned(t) =>
        LET o == out[t]
            P == Range(o.people_list)
        IN /\ o.people_list = sorted(all_people(participants, entries))
           /\ TransferPairs(o) =
                 {pr \in P \X P : pr[1] # pr[2]
                                  /\ NetOf(o, pr[1], pr[2]) > Epsilon}
           /\ Cardinality(TransferPairs(o)) = Len(o.transactions)
           /\ \A k \in 1..Len(o.transactions) :
                 LET x == o.transactions[k] IN
                 /\ x.from # x.to
                 /\ x.amount = NetOf(o, x.from, x.to)
                 /\ x.amount > Epsilon
           /\ \A i \in P : \A j \in P \ {i} :
                 o.reduced_matrix[i][j] =
                    IF NetOf(o, i, j) > Epsilon THEN NetOf(o, i, j) ELSE 0

\* A result with a transfer and with a pair whose net is above zero but not
\* above the threshold.
C1_Witness ==
    \E t \in Threads :
        /\ Returned(t)
        /\ Len(out[t].transactions) >= 1
        /\ \E i \in Range(out[t].people_list) :
           \E j \in Range(out[t].people_list) \ {i} :
              /\ NetOf(out[t], i, j) > 0
              /\ NetOf(out[t], i, j) <= Epsilon
              /\ out[t].reduced_matrix[i][j] = 0

\* Every entry has an amount above zero.
AmountsPositive == \A k \in 1..Len(entries) : entries[k].amount > 0

\* C2: the people netted over are the registered participants and every payer
\* and sharer of a processed entry; whenever i owes j more than 1e-9 net in
\* the unified matrix, a transfer i -> j is emitted.  (Stated for entries with
\* amounts above zero.)
C2_PayersNetted ==
    \A t \in Threads : (Returned(t) /\ AmountsPositive) =>
        LET o == out[t] IN
        /\ Range(o.people_list) =
              Range(participants)
              \cup UNION {Range(entries[k].share) \cup {entries[k].payer} :
                             k \in {n \in 1..Len(entries) :
                                       Len(entries[n].share) > 0}}
        /\ \A i \in Names : \A j \in Names \ {i} :
              NetOf(o, i, j) > Epsilon => <<i, j>> \in TransferPairs(o)

\* The positive-amount rows of a request.
PositiveRows(rows) ==
    SelectSeq(rows, LAMBDA row : row.amount.kind = "num" => row.amount.val > 0)

\* C3: a row whose amount is zero or negative is rejected by on_submit: it
\* is not among the entries that are aggregated and the transfers are those of
\* the request without it.
C3_NonPositiveRejected ==
    \A t \in Threads : pc[t] = "done" =>
        /\ \A k \in 1..Len(entries) : entries[k].amount > 0
        /\ Returned(t) =>
              out[t].transactions =
                 OwnResult([req[t] EXCEPT !.current_entries =
                               PositiveRows(req[t].current_entries)]).transactions

\* C4: when a currency with debts has no factor in the rate table, the
\* request ends in a MissingRate error instead of a report.
C4_MissingRateFails ==
    \A t \in Threads :
        (/\ pc[t] = "done"
         /\ ~OwnEntries(req[t]).raised
         /\ \E curr \in Currencies \ DOMAIN get_exchange_rates(req[t].response) :
               aggregate(ZeroTransfer, entries, 1)[curr] # ZeroMatrix)
        => out[t].status = "missing_rate"

\* C5: whatever the rate request does, the table has a factor for each of the
\* three supported currencies and 1.0 for the base currency; it is the default
\* table when the request raised or timed out, the body was no JSON or a rate
\* was zero; a
\* symbol the response lacks gets its default factor; and on_submit returns a
\* report unless one of its own rows made it raise.
C5_RatesNeverFail ==
    \A t \in Threads : pc[t] = "done" =>
        LET r == req[t].response IN
        /\ out[t].status = "raised" => OwnEntries(req[t]).raised
        /\ Returned(t) =>
              LET tab == out[t].conversion_rates IN
              /\ DOMAIN tab = {"Pound", "Euro", "Yuan"}
              /\ tab["Pound"] = RateScale
              /\ \A cn \in {"Euro", "Yuan"} : tab[cn] > 0
              /\ (\/ r.kind \in {"raise", "timeout", "nonjson"}
                  \/ (r.has_rates /\ \E sy \in DOMAIN r.rates : r.rates[sy] = 0))
                 => tab = default_rates
              /\ \A cn \in {"Euro", "Yuan"} :
                    (~r.has_rates \/ symbol_map[cn] \notin DOMAIN r.rates)
                    => tab[cn] = default_rates[cn]

\* The response carries a rate of zero and the report still has a transfer.
C5_Witness ==
    \E t \in Threads :
        /\ Returned(t)
        /\ req[t].response.has_rates
        /\ \E sy \in DOMAIN req[t].response.rates : req[t].response.rates[sy] = 0
        /\ \E k \in 1..Len(entries) : entries[k].currency = "Euro"
        /\ Len(out[t].transactions) >= 1

\* What one entry adds to the debt matrices.
Contribution(entry) == aggregate(ZeroTransfer, <<entry>>, 1)
OthersIn(entry) ==
    Cardinality({i \in 1..Len(entry.share) : entry.share[i] # entry.payer})

\* C6 as stated: every processed entry with sharers adds debts that sum to its
\* amount, whether or not the payer is among the sharers.
C6_Conservation ==
    \A t \in Threads : Returned(t) =>
        \A k \in 1..Len(entries) :
            Len(entries[k].share) > 0 =>
                Total(Contribution(entries[k])[entries[k].currency])
                   = entries[k].amount * ShareDen

\* C6 amended: an entry with sharers adds debts that sum to amount / n times
\* the number of share-list places that name someone other than the payer; that
\* is the whole amount when the payer is not among the sharers, and the amount
\* less the payer's own places when the payer is; it adds nothing in any other
\* currency, and the matrices of the result are the sums of these.
C6_ConservationAmended ==
    \A t \in Threads : Returned(t) =>
        /\ \A k \in 1..Len(entries) :
              LET e == entries[k]
                  n == Len(e.share)
              IN n > 0 =>
                 /\ n * Total(Contribution(e)[e.currency])
                       = e.amount * ShareDen * OthersIn(e)
                 /\ e.payer \notin Range(e.share) =>
                       Total(Contribution(e)[e.currency]) = e.amount * ShareDen
                 /\ \A curr \in Currencies \ {e.currency} :
                       Contribution(e)[curr] = ZeroMatrix
        /\ \A curr \in Currencies :
              Total(out[t].transfer[curr]) =
                 SumOver(1..Len(entries),
                         [k \in 1..Len(entries) |->
                             Total(Contribution(entries[k])[curr])])

\* Two processed entries, one whose payer is among its two sharers and one
\* whose payer is not.
C6_Witness ==
    \E t \in Threads :
        /\ Returned(t)
        /\ \E k \in 1..Len(entries) :
              /\ Len(entries[k].share) = 2
              /\ entries[k].payer \in Range(entries[k].share)
              /\ entries[k].amount > 0
              /\ Total(out[t].transfer[entries[k].currency]) > 0
        /\ \E k \in 1..Len(entries) :
              /\ Len(entries[k].share) > 0
              /\ entries[k].payer \notin Range(entries[k].share)

\* rate * amount / |sharers| summed over the entries with payer q and p among
\* the sharers; |sharers| read as the length of the share list (bylen) or as
\* the number of distinct sharers.
RECURSIVE ShareSum(_, _, _, _, _, _)
ShareSum(ents, k, p, q, tab, bylen) ==
    IF k > Len(ents) THEN 0
    ELSE (IF /\ ents[k].payer = q
             /\ p \in Range(ents[k].share)
             /\ p # q
          THEN rate_of(tab, ents[k].currency)
               * ((ents[k].amount * ShareDen)
                  \div (IF bylen THEN Len(ents[k].share)
                        ELSE Cardinality(Range(ents[k].share))))
          ELSE 0)
         + ShareSum(ents, k + 1, p, q, tab, bylen)

\* C7: matrix[p][q] of the unified matrix is the sum, over the processed
\* entries with payer q and p among the sharers, p # q, of
\* rate * amount / |sharers|; there is no self-edge.
C7_UnifiedMatrix ==
    \A t \in Threads : Returned(t) =>
        LET o == out[t] IN
        \A p \in Names : \A q \in Names :
            /\ o.net_transfer[p][p] = 0
            /\ \/ o.net_transfer[p][q] =
                     ShareSum(entries, 1, p, q, o.conversion_rates, TRUE)
               \/ o.net_transfer[p][q] =
                     ShareSum(entries, 1, p, q, o.conversion_rates, FALSE)

\* C8: participants, entries and the result of a finished submit are those of
\* its own request handled from an empty module state, whatever was submitted
\* before.
C8_OwnInputsOnly ==
    \A t \in Threads : pc[t] = "done" =>
        /\ participants = participants_list(req[t].current_participants)
        /\ entries = OwnEntries(req[t]).entries
        /\ out[t] = OwnResult(req[t])

\* A submit without rows has finished while the file still holds the rows of
\* an earlier submit: its result names only its own participant.
C8_Witness ==
    /\ pc[1] = "done"
    /\ out[1].status = "returned"
    /\ csv_file.exists
    /\ req[1].current_entries = <<>>
    /\ out[1].people_list = <<"C">>
    /\ out[1].transactions = <<>>

\* C9: when two requests interleave, each finished request has the result of
\* its own participants and entries alone.
C9_Isolated ==
    \A t \in Threads : pc[t] = "done" => out[t] = OwnResult(req[t])

\* C10: the report is the "no valid data" message only when no entry recorded
\* a debt; when debts were recorded and no net exceeds 1e-9, it is the table
\* with the "already settled" line.  (Stated for entries with amounts above
\* zero whose payers are all in the people list.)
C10_SettledNotNoData ==
    \A t \in Threads :
        (/\ Returned(t)
         /\ AmountsPositive
         /\ \A k \in 1..Len(entries) :
               entries[k].payer \in Range(out[t].people_list))
        => LET o == out[t]
               recorded == \E curr \in Currencies : o.transfer[curr] # ZeroMatrix
               settled == \A i \in Names : \A j \in Names : NetOf(o, i, j) <= Epsilon
           IN /\ o.html = "no_valid_data" => ~recorded
              /\ (recorded /\ settled) => o.html = "table_and_settled"

====
